---- MODULE Spec2Model ----
(***************************************************************************)
(* Model of src/group.py: the Group class, which validates the four group  *)
(* axioms in its constructor and then offers operate, inverse, is_abelian  *)
(* and the comparisons derived by functools.total_ordering from __lt__.    *)
(*                                                                         *)
(* A Group object is a record [elems, op, e]; the heap `groups` is the     *)
(* sequence of the Group objects constructed so far, and an object's       *)
(* position in it is its identity (Python's id()).  An operation is a      *)
(* record [callable, nparams, tbl]: tbl is the function's graph on         *)
(* elems \X elems, which is all of it the class can ever evaluate: the     *)
(* closure check calls it on pairs of members only, and every later call   *)
(* site runs on members of a set the closure check has accepted.           *)
(***************************************************************************)
EXTENDS Integers, Sequences, FiniteSets, TLC

VARIABLES groups, call, result

vars == <<groups, call, result>>

(***************************************************************************)
(* Bounds of the model.                                                    *)
(***************************************************************************)
\* Elements are the integers 0..MaxElem.
MaxElem == 6
\* Every operation table over every carrier set within 0..TableSize-1.
TableSize == 2
\* Every example operation with at most MaxPerturb entries of its table changed.
MaxPerturb == 1
\* operate() is called with 0..MaxArgs arguments.
MaxArgs == 3

Elem == 0..MaxElem

(***************************************************************************)
(* Results of a call: a returned value or a raised exception.              *)
(***************************************************************************)
Return(v) == [kind |-> "return", val |-> v, exc |-> "none", msg |-> "none"]

Raise(t, m) == [kind |-> "raise", val |-> -1, exc |-> t, msg |-> m]

NoCall == [name |-> "none", self |-> 0, args |-> <<>>]

(***************************************************************************)
(* Example operations, as Python functions of two integers.                *)
(***************************************************************************)
Perms == <<  <<1, 2, 3>>, <<2, 1, 3>>, <<1, 3, 2>>, <<3, 2, 1>>, <<2, 3, 1>>, <<3, 1, 2>>  >>

PermIndex(p) == CHOOSE i \in 1..6 : Perms[i] = p

\* Composition of the permutations of {1,2,3}, numbered 0..5 (the group S3).
Compose(a, b) ==
    IF a \in 0..5 /\ b \in 0..5
    THEN PermIndex([i \in 1..3 |-> Perms[a + 1][Perms[b + 1][i]]]) - 1
    ELSE MaxElem

\* Bitwise exclusive or of two-bit numbers.
Xor(a, b) == (((a % 2) + (b % 2)) % 2) + (2 * ((((a \div 2) % 2) + ((b \div 2) % 2)) % 2))

Fn(name, a, b) ==
    CASE name = "add"      -> a + b
      [] name = "add_mod2" -> (a + b) % 2
      [] name = "add_mod3" -> (a + b) % 3
      [] name = "add_mod4" -> (a + b) % 4
      [] name = "sub_mod3" -> (a - b) % 3
      [] name = "mul_mod3" -> (a * b) % 3
      [] name = "mul_mod5" -> (a * b) % 5
      [] name = "xor"      -> Xor(a, b)
      [] name = "compose"  -> Compose(a, b)
      [] name = "first"    -> a
      [] name = "second"   -> b
      [] name = "max"      -> IF a >= b THEN a ELSE b

Table(S, name) == [p \in S \X S |-> Fn(name, p[1], p[2])]

\* The example constructor calls: a carrier set and the name of a function.
Examples ==
    { <<{}, "add">>, <<{0}, "add">>, <<{0, 1}, "add">>,
      <<{0, 1}, "add_mod2">>, <<{0, 1, 2}, "add_mod3">>, <<{0, 1, 2, 3}, "add_mod4">>,
      <<{0, 2}, "add_mod4">>, <<{0, 1, 2}, "add_mod4">>,
      <<{0, 1, 2}, "sub_mod3">>,
      <<{0, 1, 2}, "mul_mod3">>, <<{1, 2}, "mul_mod3">>, <<{1, 2, 3, 4}, "mul_mod5">>,
      <<{0, 1, 2, 3}, "xor">>, <<{0, 1}, "xor">>, <<{0, 3}, "xor">>,
      <<{0, 1, 2, 3, 4, 5}, "compose">>, <<{0, 4, 5}, "compose">>, <<{0, 1}, "compose">>,
      <<{0, 1, 4}, "compose">>,
      <<{0, 1, 2}, "first">>, <<{0, 1}, "second">>, <<{0, 1, 2}, "max">> }

\* A Python function of two parameters with the given graph.
Fun2(t) == [callable |-> TRUE, nparams |-> 2, tbl |-> t]

\* The position of an entry of a table, row by row.
Position(p) == (p[1] * (MaxElem + 1)) + p[2]

\* A list of changes of entries of the table t: MaxPerturb pairs of an entry
\* and its new value (which may be its old value), in the order of the entries.
Changes(t) ==
    IF DOMAIN t = {} THEN {<<>>}
    ELSE { chg \in [1..MaxPerturb -> (DOMAIN t) \X Elem] :
             \A i \in 1..(MaxPerturb - 1) : Position(chg[i][1]) <= Position(chg[i + 1][1]) }

RECURSIVE Perturb(_, _)
Perturb(t, chg) ==
    IF chg = <<>> THEN t
    ELSE Perturb([t EXCEPT ![Head(chg)[1]] = Head(chg)[2]], Tail(chg))

\* The carrier sets and the values of the tables that are all tried.
Small == 0..(TableSize - 1)

\* What can be passed as an operation without being a function of two parameters.
Malformed ==
    { [callable |-> FALSE, nparams |-> 0, tbl |-> <<>>] }
      \cup { [callable |-> TRUE, nparams |-> n, tbl |-> <<>>] : n \in {0, 1, 3} }

\* The example constructor calls with the graphs of their functions.
ExampleTables == { <<x[1], Table(x[1], x[2])>> : x \in Examples }

ExampleArgs == { <<y[1], Fun2(y[2])>> : y \in ExampleTables }

(***************************************************************************)
(* Group.__init__                                                          *)
(***************************************************************************)
Ap(op, a, b) == op.tbl[<<a, b>>]

OperationCheck(op) == op.callable /\ op.nparams = 2

ClosureCheck(S, op) == ~ \E ab \in S \X S : Ap(op, ab[1], ab[2]) \notin S

is_assoc(op, x, y, z) == Ap(op, Ap(op, x, y), z) = Ap(op, x, Ap(op, y, z))

\* The constructor without its associativity check.
AssocCheckSkipped(S, op) == TRUE

AssocCheck(S, op) == ~ \E abc \in S \X S \X S : ~ is_assoc(op, abc[1], abc[2], abc[3])

\* The identity loop testing op(e, a) == a only.
IdentityCandidatesOneSided(S, op) == { e \in S : \A a \in S : Ap(op, e, a) = a }

\* The identity loop without its else clause: self.e stays unset (-1) when no
\* element qualifies, and construction goes on to the inverse check.
IdentityCandidatesNoElse(S, op) ==
    LET found == { e \in S : \A a \in S : Ap(op, e, a) = Ap(op, a, e) /\ Ap(op, a, e) = a }
    IN  IF found = {} THEN {-1} ELSE found

\* The elements the identity loop can stop at: which of them it meets first
\* depends on the iteration order of the set.
IdentityCandidates(S, op) ==
    { e \in S : \A a \in S : Ap(op, e, a) = Ap(op, a, e) /\ Ap(op, a, e) = a }

has_inverse(S, op, e, x) == \E a \in S : Ap(op, x, a) = e

\* The constructor without its inverse check.
InverseCheckSkipped(S, op, e) == TRUE

InverseCheck(S, op, e) == ~ \E a \in S : ~ has_inverse(S, op, e, a)

Built(e) == [ok |-> TRUE, e |-> e, msg |-> "none"]

Failed(m) == [ok |-> FALSE, e |-> -1, msg |-> m]

\* The constructor searching for the identity before it checks associativity.
InitOutcomesIdentityFirst(S, op) ==
    IF ~ OperationCheck(op)
    THEN {Failed("operation must be callable and take 2 arguments")}
    ELSE IF ~ ClosureCheck(S, op)
    THEN {Failed("the closure property is not satisfied")}
    ELSE IF IdentityCandidates(S, op) = {}
    THEN {Failed("the identity property is not satisfied")}
    ELSE IF ~ AssocCheck(S, op)
    THEN {Failed("the associativity property is not satisfied")}
    ELSE { IF InverseCheck(S, op, e)
           THEN Built(e)
           ELSE Failed("the inverse property is not satisfied") : e \in IdentityCandidates(S, op) }

\* The outcomes of Group(S, op): the identity cached, or the message of the TypeError.
InitOutcomes(S, op) ==
    IF ~ OperationCheck(op)
    THEN {Failed("operation must be callable and take 2 arguments")}
    ELSE IF ~ ClosureCheck(S, op)
    THEN {Failed("the closure property is not satisfied")}
    ELSE IF ~ AssocCheck(S, op)
    THEN {Failed("the associativity property is not satisfied")}
    ELSE IF IdentityCandidates(S, op) = {}
    THEN {Failed("the identity property is not satisfied")}
    ELSE { IF InverseCheck(S, op, e)
           THEN Built(e)
           ELSE Failed("the inverse property is not satisfied") : e \in IdentityCandidates(S, op) }

Construct(S, op) ==
    \E o \in InitOutcomes(S, op) :
        /\ call' = [name |-> "__init__", self |-> 0, args |-> <<S, op>>]
        /\ IF o.ok
           THEN /\ groups' = Append(groups, [elems |-> S, op |-> op, e |-> o.e])
                /\ result' = Return(Len(groups) + 1)
           ELSE /\ groups' = groups
                /\ result' = Raise("TypeError", o.msg)

(***************************************************************************)
(* Methods of a constructed Group                                          *)
(***************************************************************************)
Objects == 1..Len(groups)

Identity(self) ==
    /\ call' = [name |-> "identity", self |-> self, args |-> <<>>]
    /\ result' = Return(groups[self].e)
    /\ UNCHANGED groups

\* reduce calling the function with its operands exchanged: op(x, acc).
RECURSIVE AccumulateSwapped(_, _, _)
AccumulateSwapped(op, acc, rest) ==
    IF rest = <<>> THEN acc
    ELSE AccumulateSwapped(op, Ap(op, Head(rest), acc), Tail(rest))

\* functools.reduce without an initial value, on a non-empty sequence.
RECURSIVE Accumulate(_, _, _)
Accumulate(op, acc, rest) ==
    IF rest = <<>> THEN acc
    ELSE Accumulate(op, Ap(op, acc, Head(rest)), Tail(rest))

reduce(op, elems) == Accumulate(op, Head(elems), Tail(elems))

OperateResult(g, elems) ==
    IF \E i \in DOMAIN elems : elems[i] \notin g.elems
    THEN Raise("ValueError", "all elements must be members of the group")
    ELSE IF elems = <<>>
    THEN Raise("TypeError", "reduce() of empty iterable with no initial value")
    ELSE Return(reduce(g.op, elems))

Operate(self, elems) ==
    /\ call' = [name |-> "operate", self |-> self, args |-> elems]
    /\ result' = OperateResult(groups[self], elems)
    /\ UNCHANGED groups

\* The elements the generator of inverse() can yield first.
InverseCandidates(g, elem) == { a \in g.elems : Ap(g.op, a, elem) = g.e }

\* inverse() without its membership test: the generator finds no candidate
\* for a value outside the set.
InverseResultsUnchecked(g, elem) ==
    IF elem \notin g.elems \/ InverseCandidates(g, elem) = {}
    THEN {Raise("StopIteration", "")}
    ELSE { Return(a) : a \in InverseCandidates(g, elem) }

InverseResults(g, elem) ==
    IF elem \notin g.elems
    THEN {Raise("ValueError", "the element provided is not a member of the group")}
    ELSE IF InverseCandidates(g, elem) = {}
    THEN {Raise("StopIteration", "")}
    ELSE { Return(a) : a \in InverseCandidates(g, elem) }

Inverse(self, elem) ==
    /\ call' = [name |-> "inverse", self |-> self, args |-> <<elem>>]
    /\ result' \in InverseResults(groups[self], elem)
    /\ UNCHANGED groups

\* is_abelian() with any() in place of all().
is_abelian_any(g) ==
    \E ab \in g.elems \X g.elems : Ap(g.op, ab[1], ab[2]) = Ap(g.op, ab[2], ab[1])

is_abelian(g) ==
    \A ab \in g.elems \X g.elems : Ap(g.op, ab[1], ab[2]) = Ap(g.op, ab[2], ab[1])

IsAbelian(self) ==
    /\ call' = [name |-> "is_abelian", self |-> self, args |-> <<>>]
    /\ result' = Return(is_abelian(groups[self]))
    /\ UNCHANGED groups

ArgLists == UNION { [1..n -> Elem] : n \in 0..MaxArgs }

(***************************************************************************)
(* One Group, from any constructor call, and its methods.                  *)
(***************************************************************************)
Init ==
    /\ groups = <<>>
    /\ call = NoCall
    /\ result = Return(0)

\* The caller takes the result of the call it made; it makes its next call
\* from there.
Resume ==
    /\ call.name # "none"
    /\ call' = NoCall
    /\ result' = Return(0)
    /\ UNCHANGED groups

Idle == call.name = "none"

Next ==
    \/ Idle /\ groups = <<>> /\ \E y \in ExampleTables : \E chg \in Changes(y[2]) :
           \E t \in {Perturb(y[2], chg)} : Construct(y[1], Fun2(t))
    \/ Idle /\ groups = <<>> /\ \E S \in SUBSET Small : \E t \in [S \X S -> Small] :
           Construct(S, Fun2(t))
    \/ Idle /\ groups = <<>> /\ \E y \in ExampleTables, m \in Malformed :
           Construct(y[1], [m EXCEPT !.tbl = y[2]])
    \/ Idle /\ \E self \in Objects : Identity(self)
    \/ Idle /\ \E self \in Objects, elems \in ArgLists : Operate(self, elems)
    \/ Idle /\ \E self \in Objects, elem \in Elem : Inverse(self, elem)
    \/ Idle /\ \E self \in Objects : IsAbelian(self)
    \/ Resume

Spec == Init /\ [][Next]_vars

(***************************************************************************)
(* Several Groups, from the example constructor calls, and the comparisons *)
(* between them.  The class defines __lt__ only: total_ordering derives    *)
(* __le__, __gt__ and __ge__ from it and from ==, and == and != are those  *)
(* of object, which compare identities.                                    *)
(***************************************************************************)
\* At most MaxGroups Group objects are alive.
MaxGroups == 2

lt(a, b) == groups[a].elems \subseteq groups[b].elems /\ groups[a].elems # groups[b].elems

eq(a, b) == a = b

le_from_lt(a, b) == lt(a, b) \/ eq(a, b)

gt_from_lt(a, b) == ~ lt(a, b) /\ ~ eq(a, b)

ge_from_lt(a, b) == ~ lt(a, b)

Comparison(name, a, b) ==
    CASE name = "__lt__" -> lt(a, b)
      [] name = "__le__" -> le_from_lt(a, b)
      [] name = "__gt__" -> gt_from_lt(a, b)
      [] name = "__ge__" -> ge_from_lt(a, b)
      [] name = "__eq__" -> eq(a, b)

Comparisons == {"__lt__", "__le__", "__gt__", "__ge__", "__eq__"}

Compare(name, self, other) ==
    /\ call' = [name |-> name, self |-> self, args |-> <<other>>]
    /\ result' = Return(Comparison(name, self, other))
    /\ UNCHANGED groups

NextOrd ==
    \/ Idle /\ Len(groups) < MaxGroups /\ \E x \in ExampleArgs : Construct(x[1], x[2])
    \/ Idle /\ \E name \in Comparisons, self \in Objects, other \in Objects : Compare(name, self, other)
    \/ Resume

SpecOrd == Init /\ [][NextOrd]_vars

(***************************************************************************)
(* The group axioms, stated on the graph t of an operation over a set S.   *)
(***************************************************************************)
Closed(S, t) == \A a \in S, b \in S : t[<<a, b>>] \in S

Associative(S, t) ==
    \A a \in S, b \in S, c \in S : t[<<t[<<a, b>>], c>>] = t[<<a, t[<<b, c>>]>>]

IsIdentity(S, t, e) == e \in S /\ \A a \in S : t[<<e, a>>] = a /\ t[<<a, e>>] = a

HasIdentity(S, t) == \E e \in S : IsIdentity(S, t, e)

HasInverses(S, t) == \E e \in S : IsIdentity(S, t, e) /\ \A a \in S : \E b \in S : t[<<a, b>>] = e

GroupAxioms(S, t) == Closed(S, t) /\ Associative(S, t) /\ HasInverses(S, t)

TwoArgument(op) == op.callable /\ op.nparams = 2

\* A triple on which associativity fails whatever the operation does outside S.
NotAssociativeWithin(S, t) ==
    \E a \in S, b \in S, c \in S :
        /\ t[<<a, b>>] \in S
        /\ t[<<b, c>>] \in S
        /\ t[<<t[<<a, b>>], c>>] # t[<<a, t[<<b, c>>]>>]

AfterInit == call.name = "__init__"

TypeErrorOf(m) == Raise("TypeError", m)

(***************************************************************************)
(* Claims                                                                  *)
(***************************************************************************)
\* C1: Group(S, op) with a two-argument operation constructs a Group (of S, op
\* and an identity) if and only if closure, associativity, a two-sided identity
\* and an inverse op(a, b) == e for every a hold on S; otherwise it raises and
\* no Group is produced.
C1_ConstructsIffAxioms ==
    (AfterInit /\ TwoArgument(call.args[2])) =>
        LET S == call.args[1]
            op == call.args[2]
        IN  IF GroupAxioms(S, op.tbl)
            THEN /\ result.kind = "return"
                 /\ Len(groups) = 1
                 /\ groups[1].elems = S
                 /\ groups[1].op = op
            ELSE /\ result.kind = "raise"
                 /\ groups = <<>>

C1_Witness ==
    /\ AfterInit
    /\ result.kind = "return"
    /\ Cardinality(groups[1].elems) = 6

\* C2: construction reports the first failing check in the order arity, closure,
\* associativity, identity, inverse, whatever later checks would also fail.
C2_FirstFailingCheck ==
    AfterInit =>
        LET S == call.args[1]
            op == call.args[2]
            t == op.tbl
        IN  /\ ~ TwoArgument(op) =>
                  result = TypeErrorOf("operation must be callable and take 2 arguments")
            /\ (TwoArgument(op) /\ ~ Closed(S, t)) =>
                  result = TypeErrorOf("the closure property is not satisfied")
            /\ (TwoArgument(op) /\ Closed(S, t) /\ ~ Associative(S, t)) =>
                  result = TypeErrorOf("the associativity property is not satisfied")
            /\ (TwoArgument(op) /\ Closed(S, t) /\ Associative(S, t) /\ ~ HasIdentity(S, t)) =>
                  result = TypeErrorOf("the identity property is not satisfied")
            /\ (TwoArgument(op) /\ Closed(S, t) /\ Associative(S, t) /\ HasIdentity(S, t)
                   /\ ~ HasInverses(S, t)) =>
                  result = TypeErrorOf("the inverse property is not satisfied")

\* A closure violation reported for an operation that is also not associative
\* and has no identity.
C2_Witness ==
    /\ AfterInit
    /\ TwoArgument(call.args[2])
    /\ result = TypeErrorOf("the closure property is not satisfied")
    /\ NotAssociativeWithin(call.args[1], call.args[2].tbl)
    /\ ~ HasIdentity(call.args[1], call.args[2].tbl)

\* C3: inverse(a) of a member a never raises, and returns a member b with
\* op(b, a) == identity and op(a, b) == identity.
C3_InverseTwoSided ==
    (call.name = "inverse" /\ call.args[1] \in groups[call.self].elems) =>
        LET g == groups[call.self]
            a == call.args[1]
        IN  /\ result.kind = "return"
            /\ result.val \in g.elems
            /\ g.op.tbl[<<result.val, a>>] = g.e
            /\ g.op.tbl[<<a, result.val>>] = g.e

\* The inverse of an element of a non-abelian group that is not its own inverse.
C3_Witness ==
    /\ call.name = "inverse"
    /\ result.kind = "return"
    /\ result.val # call.args[1]
    /\ \E a \in groups[call.self].elems, b \in groups[call.self].elems :
           groups[call.self].op.tbl[<<a, b>>] # groups[call.self].op.tbl[<<b, a>>]

\* C4: the cached identity e of a Group satisfies op(e, a) == op(a, e) == a for
\* every member a, no other element does, and the identity property returns it.
C4_IdentityUnique ==
    \A i \in Objects :
        LET g == groups[i]
        IN  /\ IsIdentity(g.elems, g.op.tbl, g.e)
            /\ \A x \in g.elems : IsIdentity(g.elems, g.op.tbl, x) => x = g.e
            /\ (call.name = "identity" /\ call.self = i) => result = Return(g.e)

C4_Witness ==
    /\ call.name = "identity"
    /\ Cardinality(groups[call.self].elems) = 4
    /\ result = Return(1)

\* The left fold of t over a non-empty sequence, by recursion on its last element.
RECURSIVE LeftFold(_, _)
LeftFold(t, s) ==
    IF Len(s) = 1 THEN s[1]
    ELSE t[<<LeftFold(t, SubSeq(s, 1, Len(s) - 1)), s[Len(s)]>>]

\* C5: operate(e1, ..., en) on a non-empty sequence of members returns the left
\* fold op(...op(op(e1, e2), e3)..., en), which is a member of the group.
C5_OperateLeftFold ==
    (call.name = "operate" /\ call.args # <<>>
        /\ \A k \in DOMAIN call.args : call.args[k] \in groups[call.self].elems) =>
        LET g == groups[call.self]
        IN  /\ result.kind = "return"
            /\ result.val = LeftFold(g.op.tbl, call.args)
            /\ result.val \in g.elems

\* Three members of a non-abelian group whose product depends on their order.
C5_Witness ==
    /\ call.name = "operate"
    /\ Len(call.args) = 3
    /\ result.kind = "return"
    /\ result.val # LeftFold(groups[call.self].op.tbl, <<call.args[3], call.args[2], call.args[1]>>)

\* The result of a call of operate or inverse with an argument outside the set.
OutsideCall(c) ==
    /\ c.name \in {"operate", "inverse"}
    /\ \E k \in DOMAIN c.args : c.args[k] \notin groups[c.self].elems

\* C8: operate with an argument outside the carrier set in any position, and
\* inverse of a value outside it, raise ValueError and leave the Group unchanged.
C8_MembershipError ==
    [][OutsideCall(call') => (result'.kind = "raise" /\ result'.exc = "ValueError" /\ groups' = groups)]_vars

\* operate on a member followed by a value outside the set.
C8_Witness ==
    /\ call.name = "operate"
    /\ Len(call.args) >= 2
    /\ call.args[1] \in groups[call.self].elems
    /\ call.args[Len(call.args)] \notin groups[call.self].elems
    /\ result.exc = "ValueError"
    /\ Len(groups) = 1

\* C9: is_abelian() is true if and only if every two members commute; it is
\* true of {0,1,2,3} under addition mod 4.
C9_IsAbelian ==
    call.name = "is_abelian" =>
        LET g == groups[call.self]
        IN  /\ result.kind = "return"
            /\ result.val = TRUE <=>
                  (\A a \in g.elems, b \in g.elems : a < b => g.op.tbl[<<a, b>>] = g.op.tbl[<<b, a>>])
            /\ (g.elems = 0..3 /\ g.op.tbl = Table(0..3, "add_mod4")) => result.val = TRUE

\* is_abelian() answering no.
C9_Witness ==
    /\ call.name = "is_abelian"
    /\ result = Return(FALSE)

\* C10: Group of an empty collection and a two-argument callable fails with the
\* identity error, and no Group is empty.
C10_EmptyFailsIdentity ==
    /\ (AfterInit /\ call.args[1] = {} /\ TwoArgument(call.args[2])) =>
           /\ result = TypeErrorOf("the identity property is not satisfied")
           /\ groups = <<>>
    /\ \A i \in Objects : groups[i].elems # {}

C10_Witness ==
    /\ AfterInit
    /\ call.args[1] = {}
    /\ TwoArgument(call.args[2])
    /\ result.kind = "raise"

\* C6: G1 == G2 holds exactly when the element sets are identical, which is
\* when neither G1 < G2 nor G2 < G1.
C6_EqualBySets ==
    call.name = "__eq__" =>
        LET a == call.self
            b == call.args[1]
        IN  /\ result.val = (groups[a].elems = groups[b].elems)
            /\ result.val = (~ lt(a, b) /\ ~ lt(b, a))

\* C7: each of <, <=, >, >= between two Groups gives what the same comparison
\* gives between their element sets.
C7_OrderBySets ==
    call.name \in {"__lt__", "__le__", "__gt__", "__ge__"} =>
        LET S == groups[call.self].elems
            T == groups[call.args[1]].elems
        IN  result.val =
                CASE call.name = "__lt__" -> (S \subseteq T /\ S # T)
                  [] call.name = "__le__" -> (S \subseteq T)
                  [] call.name = "__gt__" -> (T \subseteq S /\ S # T)
                  [] call.name = "__ge__" -> (T \subseteq S)

====
